---- MODULE Spec2Model ----
(***************************************************************************)
(* A model of the explorer tree view of                                    *)
(* src/vs/workbench/parts/files/electron-browser/views/explorerViewer.ts:  *)
(* the asynchronous data source (ExplorerDataSource), the row renderer     *)
(* with its inline rename/create input box (FilesRenderer) and the         *)
(* visibility filter with its per-root exclude cache (FilesFilter).        *)
(* Each component has its own specification over the shared variables.     *)
(***************************************************************************)
EXTENDS Integers, Sequences, FiniteSets, TLC

(***************************************************************************)
(* Bounds of the model.                                                    *)
(***************************************************************************)
MaxSessions == 2
MaxCalls == 2

(***************************************************************************)
(* The explorer items the components are handed (ExplorerItem).  Two       *)
(* workspace roots and five entries below them.                            *)
(***************************************************************************)
Items == 1 .. 7

ItemTable ==
  << [name |-> "rootA", isRoot |-> TRUE,  isDirectory |-> TRUE,  root |-> 1, parent |-> 0, rel |-> ""],
     [name |-> "rootB", isRoot |-> TRUE,  isDirectory |-> TRUE,  root |-> 2, parent |-> 0, rel |-> ""],
     [name |-> "lib",   isRoot |-> FALSE, isDirectory |-> TRUE,  root |-> 1, parent |-> 1, rel |-> "lib"],
     [name |-> "a.js",  isRoot |-> FALSE, isDirectory |-> FALSE, root |-> 1, parent |-> 1, rel |-> "a.js"],
     [name |-> "a.ts",  isRoot |-> FALSE, isDirectory |-> FALSE, root |-> 1, parent |-> 1, rel |-> "a.ts"],
     [name |-> "a.js",  isRoot |-> FALSE, isDirectory |-> FALSE, root |-> 2, parent |-> 2, rel |-> "a.js"],
     \* a new, still unnamed file under lib: its resource is the folder's
     [name |-> "",      isRoot |-> FALSE, isDirectory |-> FALSE, root |-> 1, parent |-> 3, rel |-> "lib"],
     \* names of other shapes, which only edit sessions are opened for
     [name |-> ".env",     isRoot |-> FALSE, isDirectory |-> FALSE, root |-> 2, parent |-> 2, rel |-> ".env"],
     [name |-> "Makefile", isRoot |-> FALSE, isDirectory |-> FALSE, root |-> 2, parent |-> 2, rel |-> "Makefile"],
     [name |-> "v1.2",     isRoot |-> FALSE, isDirectory |-> TRUE,  root |-> 2, parent |-> 2, rel |-> "v1.2"] >>

ShapeItems == 8 .. 10
AllItems == Items \cup ShapeItems

\* The characters of a name.
NameChars(name) ==
  CASE name = "a.js" -> <<"a", ".", "j", "s">>
    [] name = "a.ts" -> <<"a", ".", "t", "s">>
    [] name = "lib" -> <<"l", "i", "b">>
    [] name = ".env" -> <<".", "e", "n", "v">>
    [] name = "Makefile" -> <<"M", "a", "k", "e", "f", "i", "l", "e">>
    [] name = "v1.2" -> <<"v", "1", ".", "2">>
    [] name = "rootA" -> <<"r", "o", "o", "t", "A">>
    [] name = "rootB" -> <<"r", "o", "o", "t", "B">>
    [] OTHER -> << >>

Roots == {i \in Items : ItemTable[i].isRoot}

\* The rows the template of the renderer model is bound to, and the one of
\* them an external command (rename) puts into edit mode.
RenderedItems == {3, 4}
RenamedItems == {4}

\* The items the input box model opens edit sessions for.
EditItems == {3, 4, 7} \cup ShapeItems

VARIABLES
  editable,        \* explorerService: item -> editable-data record or NoEditable
  tplLabelDisplay, \* templateData.label.element.style.display
  tplLabelFile,    \* the item templateData.label shows (0: none yet)
  tplLabelDisposed,\* templateData.label has been disposed
  elementDisposable, \* templateData.elementDisposable
  sessions,        \* the input boxes renderInputBox has created, oldest first
  lastEvent,       \* the DOM event delivered last, and the session it went to
  restored,        \* partService.isRestored()
  calls,           \* the getChildren calls made so far, oldest first
  hasChildrenResult, \* the last hasChildren call and what it returned
  folders,         \* contextService.getWorkspace().folders, in index order
  config,          \* configurationService: root -> files.exclude, or Undefined
  hiddenExpressionPerRoot, \* FilesFilter's cache: root -> entry or NoEntry
  needsRefresh,    \* what the last direct updateConfiguration call returned
  configChange,    \* the configuration change the view has not answered yet
  filterResult,    \* the last filter call and what it returned
  sortOrder,       \* explorerService.sortOrder
  compareResult    \* the last compare call and what it returned

rendererVars == <<tplLabelDisplay, tplLabelFile, tplLabelDisposed,
                  elementDisposable, sessions, lastEvent>>
dataVars == <<restored, calls, hasChildrenResult>>
filterVars == <<folders, config, hiddenExpressionPerRoot, needsRefresh,
                configChange, filterResult>>
sorterVars == <<sortOrder, compareResult>>
vars == <<editable, rendererVars, dataVars, filterVars, sorterVars>>

(***************************************************************************)
(* FilesRenderer: one row template and the edit sessions rendered into it. *)
(***************************************************************************)

\* IEditableData: the validators external commands install.
EditableData == {"rejectEmpty", "rejectTaken"}
NoEditable == "none"
NoMessage == "null"

\* editableData.validationMessage(value): the error text, or null.
validationMessage(ed, value) ==
  IF ed = "rejectEmpty"
    THEN IF value = "" THEN "A name must be provided." ELSE NoMessage
    ELSE IF value \in {"a", "a.js"} THEN "Already exists." ELSE ""

\* The validation option handed to the InputBox: null when there is no content.
validation(ed, value) ==
  LET content == validationMessage(ed, value)
  IN  IF content = NoMessage \/ content = "" THEN NoMessage ELSE content

\* What the user may type into an input box.
TypedValues == {""}

\* explorerService.getEditableData(stat)
getEditableData(stat) == editable[stat]

\* joinPath(parent, value || ' '): the file whose icon the edit label shows.
IconFile(value) == IF value = "" THEN " " ELSE value

\* The disposables renderInputBox collects.
toDispose == {"inputBox", "keydown", "blur", "label", "styler"}

\* inputBox.validate() and inputBox.isInputValid(): no error for the value.
InputBoxValidate(s) == validation(s.ed, s.value) = NoMessage
IsInputValid(s) == validation(s.ed, s.value) = NoMessage

RECURSIVE done(_, _, _, _)

\* A BLUR listener that reports success whatever the input holds.
BlurListenerCommits(s, reentry) == done(s, TRUE, TRUE, reentry)

\* The BLUR listener.
BlurListener(s, reentry) == done(s, IsInputValid(s), TRUE, reentry)

\* A blur event reaches the listener only while the listener is attached.
DeliverBlur(s, reentry) ==
  IF "blur" \in s.disposed THEN s ELSE BlurListener(s, reentry)

\* The function of once() calling back before it tears the session down.
doneBodyCallbackFirst(s, success, blur, reentry) ==
  LET s1 == [s EXCEPT !.labelDisplay = "none"]
      s2 == IF reentry = "hide" THEN DeliverBlur(s1, "none") ELSE s1
      s3 == [s2 EXCEPT !.finish = Append(@, [value |-> s2.value,
                                             disposed |-> s2.disposed,
                                             success |-> success,
                                             attached |-> s2.attached])]
      s4 == [s3 EXCEPT !.disposed = toDispose, !.attached = FALSE]
  IN  IF reentry = "remove" THEN DeliverBlur(s4, "none") ELSE s4

\* The function passed to once(): hide the edit label, read the value,
\* dispose, detach, call back.  reentry names the statement during which
\* the browser raises a synchronous blur on the input ("none": no blur).
doneBody(s, success, blur, reentry) ==
  LET s1 == [s EXCEPT !.labelDisplay = "none"]
      s2 == IF reentry = "hide" THEN DeliverBlur(s1, "none") ELSE s1
      value == s2.value
      s3 == [s2 EXCEPT !.disposed = toDispose]
      s4 == [s3 EXCEPT !.attached = FALSE]
      s5 == IF reentry = "remove" THEN DeliverBlur(s4, "none") ELSE s4
  IN  [s5 EXCEPT !.finish = Append(@, [value |-> value, disposed |-> s5.disposed,
                                        success |-> success,
                                        attached |-> s5.attached])]

\* done without the once() guard: every call runs the function.
doneUnguarded(s, success, blur, reentry) ==
  doneBody([s EXCEPT !.didCall = TRUE], success, blur, reentry)

\* once(fn): the first call runs fn, every later call returns at once.
done(s, success, blur, reentry) ==
  IF s.didCall THEN s
  ELSE doneBody([s EXCEPT !.didCall = TRUE], success, blur, reentry)

\* A KEY_DOWN listener whose Enter branch does not validate.
KeyDownListenerNoValidate(s, key, reentry) ==
  IF key = "Enter" THEN done(s, TRUE, FALSE, reentry)
  ELSE IF key = "Escape" THEN done(s, FALSE, FALSE, reentry) ELSE s

\* The KEY_DOWN listener.
KeyDownListener(s, key, reentry) ==
  IF key = "Enter"
    THEN IF InputBoxValidate(s) THEN done(s, TRUE, FALSE, reentry) ELSE s
    ELSE IF key = "Escape" THEN done(s, FALSE, FALSE, reentry) ELSE s

\* value.lastIndexOf(ch): the 0-based index of the last ch, or -1.
lastIndexOf(chars, ch) ==
  LET at == {i \in 1 .. Len(chars) : chars[i] = ch}
  IN  IF at = {} THEN -1 ELSE (CHOOSE i \in at : \A j \in at : j <= i) - 1

\* The selection without the test for a directory.
initialSelectionAnyKind(stat) ==
  LET value == NameChars(ItemTable[stat].name)
      lastDot == lastIndexOf(value, ".")
  IN  [start |-> 0, end |-> IF lastDot > 0 THEN lastDot ELSE Len(value)]

\* The range inputBox.select is called with.
initialSelection(stat) ==
  LET value == NameChars(ItemTable[stat].name)
      lastDot == lastIndexOf(value, ".")
  IN  [start |-> 0,
       end |-> IF lastDot > 0 /\ ~ItemTable[stat].isDirectory
                 THEN lastDot ELSE Len(value)]

\* The session renderInputBox creates for stat.
NewSession(stat, editableData) ==
  LET value == ItemTable[stat].name
  IN  [ed |-> editableData, value |-> value, disposed |-> {},
       labelDisplay |-> "",
       finish |-> << >>, attached |-> TRUE, didCall |-> FALSE,
       item |-> stat, selection |-> initialSelection(stat), iconFile |-> IconFile(value)]

renderInputBox(stat, editableData) ==
  sessions' = Append(sessions, NewSession(stat, editableData))

NoEvent == [reentry |-> "none", kind |-> "none", sess |-> 0]

RendererInit ==
  /\ tplLabelDisplay = ""
  /\ tplLabelFile = 0
  /\ tplLabelDisposed = FALSE
  /\ elementDisposable = "None"
  /\ sessions = << >>
  /\ lastEvent = NoEvent

\* explorerService.setEditable(stat, data), called by external commands.
SetEditable(stat, data) ==
  /\ editable[stat] # data
  /\ editable' = [i \in AllItems |-> IF i = stat THEN data ELSE NoEditable]
  /\ lastEvent' = NoEvent
  /\ UNCHANGED <<tplLabelDisplay, tplLabelFile, tplLabelDisposed,
                 elementDisposable, sessions, dataVars, filterVars, sorterVars>>

RenderElement(stat) ==
  /\ ~tplLabelDisposed
  /\ LET editableData == getEditableData(stat)
     IN  IF editableData = NoEditable
           THEN /\ tplLabelDisplay' = "flex"
                /\ tplLabelFile' = stat
                /\ elementDisposable' = "onDidRender"
                /\ UNCHANGED sessions
           ELSE /\ Len(sessions) < MaxSessions
                /\ tplLabelDisplay' = "none"
                /\ renderInputBox(stat, editableData)
                /\ elementDisposable' = "None"
                /\ UNCHANGED tplLabelFile
  /\ lastEvent' = NoEvent
  /\ UNCHANGED <<editable, tplLabelDisposed, dataVars, filterVars, sorterVars>>

disposeTemplate ==
  /\ ~tplLabelDisposed
  /\ elementDisposable' =
       IF elementDisposable = "onDidRender" THEN "disposed" ELSE elementDisposable
  /\ tplLabelDisposed' = TRUE
  /\ lastEvent' = NoEvent
  /\ UNCHANGED <<editable, tplLabelDisplay, tplLabelFile, sessions,
                 dataVars, filterVars, sorterVars>>

\* The user types: the input's value changes and onDidChange updates the icon.
TypeValue(k, v) ==
  /\ "inputBox" \notin sessions[k].disposed
  /\ sessions[k].value # v
  /\ sessions' = [sessions EXCEPT ![k].value = v, ![k].iconFile = IconFile(v)]
  /\ lastEvent' = NoEvent
  /\ UNCHANGED <<editable, tplLabelDisplay, tplLabelFile, tplLabelDisposed,
                 elementDisposable, dataVars, filterVars, sorterVars>>

\* A key-down event on the input of session k.  A blur can be raised inside
\* done() only, so reentry is recorded when the key reached done().
KeyDown(k, key, reentry) ==
  /\ "keydown" \notin sessions[k].disposed
  /\ sessions' = [sessions EXCEPT ![k] = KeyDownListener(@, key, reentry)]
  /\ lastEvent' = [reentry |-> IF sessions'[k].didCall THEN reentry ELSE "none", kind |-> key,
                   sess |-> k]
  /\ UNCHANGED <<editable, tplLabelDisplay, tplLabelFile, tplLabelDisposed,
                 elementDisposable, dataVars, filterVars, sorterVars>>

\* The input of session k loses focus.
Blur(k, reentry) ==
  /\ "blur" \notin sessions[k].disposed
  /\ sessions' = [sessions EXCEPT ![k] = BlurListener(@, reentry)]
  /\ lastEvent' = [reentry |-> reentry, kind |-> "Blur", sess |-> k]
  /\ UNCHANGED <<editable, tplLabelDisplay, tplLabelFile, tplLabelDisposed,
                 elementDisposable, dataVars, filterVars, sorterVars>>

Keys == {"Enter", "Escape", "Other"}
Reentries == {"none", "hide", "remove"}

RendererNext ==
  \/ \E stat \in RenamedItems, data \in EditableData \cup {NoEditable} :
       SetEditable(stat, data)
  \/ \E stat \in RenderedItems : RenderElement(stat)
  \/ disposeTemplate
  \/ \E k \in DOMAIN sessions, v \in TypedValues : TypeValue(k, v)
  \/ \E k \in DOMAIN sessions, key \in Keys, r \in Reentries : KeyDown(k, key, r)
  \/ \E k \in DOMAIN sessions, r \in Reentries : Blur(k, r)

\* The renderer opening edit sessions for names of every shape.
InputBoxNext ==
  \/ \E stat \in EditItems, data \in {"rejectEmpty", NoEditable} :
       SetEditable(stat, data)
  \/ \E stat \in EditItems : RenderElement(stat)
  \/ disposeTemplate

(***************************************************************************)
(* ExplorerDataSource.                                                     *)
(***************************************************************************)

\* The show-delays of the progress indicator, in milliseconds.
DelayRestored == 800
DelayStartup == 3200

\* The two shapes of an element: a list of roots, or one item.
ArrayOf(list) == [item |-> 0, isArray |-> TRUE, items |-> list]
ItemOf(i) == [item |-> i, isArray |-> FALSE, items |-> << >>]

RootLists == {<< >>, <<1>>, <<1, 2>>}
Directories == {i \in Items : ItemTable[i].isDirectory}
Errors == {"EIO"}

\* What the file service finds below a directory.
Children(i) ==
  CASE i = 1 -> <<3, 4, 5>>
    [] i = 2 -> <<6>>
    [] i = 3 -> <<7>>
    [] OTHER -> << >>

\* hasChildren without the list test.
hasChildrenOfItem(element) ==
  IF element.isArray THEN Len(element.items) > 0
  ELSE ItemTable[element.item].isDirectory

hasChildren(element) ==
  element.isArray \/ ItemTable[element.item].isDirectory

\* element.fetchChildren(fileService): one call of the file service and a
\* pending promise.
fetchChildren(element) == [fetch |-> "pending", fileCalls |-> 1]

\* getChildren without the early return for a list of roots.
getChildrenNoEarlyReturn(element, isRestored) ==
  LET f == fetchChildren(element)
  IN  [value |-> << >>, element |-> element, fetch |-> f.fetch,
       fileCalls |-> f.fileCalls,
       fetched |-> << >>, promise |-> "pending", notified |-> << >>,
       progress |-> << [promise |-> "recovered",
                        delay |-> IF isRestored THEN DelayRestored
                                  ELSE DelayStartup] >>]

\* getChildren showing progress for the promise of fetchChildren itself.
getChildrenShowsFetch(element, isRestored) ==
  IF element.isArray
    THEN [value |-> element.items, element |-> element, fetch |-> "none",
          fileCalls |-> 0, fetched |-> << >>, promise |-> "fulfilled", notified |-> << >>,
          progress |-> << >>]
    ELSE LET f == fetchChildren(element)
         IN  [value |-> << >>, element |-> element, fetch |-> f.fetch,
              fileCalls |-> f.fileCalls, fetched |-> << >>, promise |-> "pending", notified |-> << >>,
              progress |-> << [promise |-> "fetch",
                               delay |-> IF isRestored THEN DelayRestored
                                         ELSE DelayStartup] >>]

\* The synchronous part of getChildren: the record of the call.  fetch and
\* fetched are the state of the promise of fetchChildren and the list it
\* was fulfilled with, promise and value those of the promise returned.
getChildren(element, isRestored) ==
  IF element.isArray
    THEN [value |-> element.items, element |-> element, fetch |-> "none",
          fileCalls |-> 0, fetched |-> << >>, promise |-> "fulfilled", notified |-> << >>,
          progress |-> << >>]
    ELSE LET f == fetchChildren(element)
         IN  [value |-> << >>, element |-> element, fetch |-> f.fetch,
              fileCalls |-> f.fileCalls, fetched |-> << >>, promise |-> "pending", notified |-> << >>,
              progress |-> << [promise |-> "recovered",
                               delay |-> IF isRestored THEN DelayRestored
                                         ELSE DelayStartup] >>]

\* then(undefined, ...): a fulfilled fetch passes its list through.
onFulfilled(c, list) ==
  [c EXCEPT !.promise = "fulfilled", !.value = list]

\* A rejection handler that reports the error for roots too.
onRejectedNotifyAll(c, e) ==
  [c EXCEPT !.notified = Append(@, e),
            !.promise = "fulfilled", !.value = << >>]

\* The rejection handler of getChildren.
onRejected(c, e) ==
  [c EXCEPT !.notified = IF ~ItemTable[c.element.item].isRoot
                           THEN Append(@, e) ELSE @,
            !.promise = "fulfilled", !.value = << >>]

NoHasChildren == [element |-> ArrayOf(<< >>), called |-> FALSE, result |-> FALSE]

DataInit ==
  /\ restored = FALSE
  /\ calls = << >>
  /\ hasChildrenResult = NoHasChildren

HasChildren(element) ==
  /\ hasChildrenResult' =
       [element |-> element, called |-> TRUE, result |-> hasChildren(element)]
  /\ UNCHANGED <<editable, rendererVars, restored, calls, filterVars, sorterVars>>

GetChildren(element) ==
  /\ Len(calls) < MaxCalls
  /\ calls' = Append(calls, getChildren(element, restored))
  /\ UNCHANGED <<editable, rendererVars, restored, hasChildrenResult, filterVars, sorterVars>>

\* The fetch of call c succeeds with list.
FetchFulfils(c, list) ==
  /\ calls[c].fetch = "pending"
  /\ calls' = [calls EXCEPT ![c] =
                 onFulfilled([@ EXCEPT !.fetch = "fulfilled", !.fetched = list],
                             list)]
  /\ UNCHANGED <<editable, rendererVars, restored, hasChildrenResult, filterVars, sorterVars>>

\* The fetch of call c fails with e.
FetchRejects(c, e) ==
  /\ calls[c].fetch = "pending"
  /\ calls' = [calls EXCEPT ![c] =
                 onRejected([@ EXCEPT !.fetch = "rejected"], e)]
  /\ UNCHANGED <<editable, rendererVars, restored, hasChildrenResult, filterVars, sorterVars>>

\* The workbench finishes its startup restore.
Restore ==
  /\ ~restored
  /\ restored' = TRUE
  /\ UNCHANGED <<editable, rendererVars, calls, hasChildrenResult, filterVars, sorterVars>>

DataNext ==
  \/ \E list \in RootLists : HasChildren(ArrayOf(list))
  \/ \E i \in Items : HasChildren(ItemOf(i))
  \/ \E list \in RootLists : GetChildren(ArrayOf(list))
  \/ \E i \in Directories : GetChildren(ItemOf(i))
  \/ \E c \in DOMAIN calls :
       \E list \in {Children(calls[c].element.item), << >>} : FetchFulfils(c, list)
  \/ \E c \in DOMAIN calls, e \in Errors : FetchRejects(c, e)
  \/ Restore

(***************************************************************************)
(* FilesFilter.                                                            *)
(***************************************************************************)

\* glob.IExpression: a set of <<pattern, value>> pairs, the value "true" or
\* the when-clause naming the sibling that must exist.
ExprWhen == {<<"**/*.js", "$(basename).ts">>}
ExprLib == {<<"**/lib", "true">>}

\* configuration.files.exclude of a root: an expression, or nothing.
Undefined == [defined |-> FALSE, expr |-> {}]
ConfigValues == {Undefined, [defined |-> TRUE, expr |-> ExprWhen],
                 [defined |-> TRUE, expr |-> ExprLib]}

FolderLists == {<<1>>, <<1, 2>>, <<2, 1>>}
FilterEditableItems == {4, 7}
Visibilities == {"Hidden", "Visible", "Recurse"}

\* An expression object: its content, and the root whose configuration holds
\* this very object (0: an object nobody else holds).
ExprObject(owner, expr) == [expr |-> expr, owner |-> owner]

\* (configuration.files.exclude) || Object.create(null)
excludesConfigOf(folder) ==
  IF config[folder].defined THEN ExprObject(folder, config[folder].expr)
                            ELSE ExprObject(0, {})

\* objects.equals: deep structural equality.
equals(a, b) == a.expr = b.expr

\* objects.deepClone: a new object with the same content.
deepClone(e) == ExprObject(0, e.expr)

\* glob.parse(expression): the matcher compiled from the expression.
globParse(e) == [compiled |-> e]

\* The name without its extension, as a when-clause sees it.
StripExt(name) == IF name \in {"a.js", "a.ts"} THEN "a" ELSE name

\* A glob pattern against a root-relative path.
PatternMatches(pattern, path) ==
  IF pattern = "**/*.js" THEN path \in {"a.js"}
  ELSE IF pattern = "**/lib" THEN path = "lib"
  ELSE FALSE

\* parsed(path, basename, hasSibling): some pattern matches the path and its
\* when-clause, if it has one, finds the sibling.
ParsedMatches(parsed, path, basename, siblings) ==
  \E pv \in parsed.compiled :
    /\ PatternMatches(pv[1], path)
    /\ pv[2] = "true" \/ (StripExt(basename) \o ".ts") \in siblings

\* name => !!stat.parent.getChild(name): the names below the item's parent.
SiblingNames(stat) ==
  {ItemTable[j].name : j \in {j \in Items : ItemTable[j].parent = ItemTable[stat].parent}}

NoEntry == [parsed |-> globParse({}), present |-> FALSE,
            original |-> ExprObject(0, {})]

\* The forEach body comparing the cached object with the configured one by
\* identity.
updateFolderSameObject(st, folder) ==
  LET excludesConfig == excludesConfigOf(folder)
      cached == st.cache[folder]
      needs == IF ~st.needsRefresh
                 THEN ~cached.present \/ cached.original # excludesConfig
                 ELSE st.needsRefresh
      excludesConfigCopy == deepClone(excludesConfig)
  IN  [needsRefresh |-> needs,
       cache |-> [st.cache EXCEPT ![folder] =
                    [parsed |-> globParse(excludesConfigCopy.expr), present |-> TRUE,
                     original |-> excludesConfigCopy]]]

\* The forEach body keeping the configuration's own object in the cache.
updateFolderNoCopy(st, folder) ==
  LET excludesConfig == excludesConfigOf(folder)
      cached == st.cache[folder]
      needs == IF ~st.needsRefresh
                 THEN ~cached.present \/ ~equals(cached.original, excludesConfig)
                 ELSE st.needsRefresh
  IN  [needsRefresh |-> needs,
       cache |-> [st.cache EXCEPT ![folder] =
                    [parsed |-> globParse(excludesConfig.expr), present |-> TRUE,
                     original |-> excludesConfig]]]

\* The forEach body leaving the cache alone once needsRefresh is set.
updateFolderUntilStale(st, folder) ==
  LET excludesConfig == excludesConfigOf(folder)
      cached == st.cache[folder]
      excludesConfigCopy == deepClone(excludesConfig)
  IN  IF st.needsRefresh THEN st
      ELSE [needsRefresh |-> ~cached.present
                               \/ ~equals(cached.original, excludesConfig),
            cache |-> [st.cache EXCEPT ![folder] =
                         [parsed |-> globParse(excludesConfigCopy.expr), present |-> TRUE,
                          original |-> excludesConfigCopy]]]

\* The forEach body with the flag of the last folder only.
updateFolderLastFlag(st, folder) ==
  LET excludesConfig == excludesConfigOf(folder)
      cached == st.cache[folder]
      excludesConfigCopy == deepClone(excludesConfig)
  IN  [needsRefresh |-> ~cached.present
                          \/ ~equals(cached.original, excludesConfig),
       cache |-> [st.cache EXCEPT ![folder] =
                    [parsed |-> globParse(excludesConfigCopy.expr), present |-> TRUE,
                     original |-> excludesConfigCopy]]]

\* The body of the forEach of updateConfiguration for one folder; st holds
\* the cache and needsRefresh.
updateFolder(st, folder) ==
  LET excludesConfig == excludesConfigOf(folder)
      cached == st.cache[folder]
      needs == IF ~st.needsRefresh
                 THEN ~cached.present \/ ~equals(cached.original, excludesConfig)
                 ELSE st.needsRefresh
      excludesConfigCopy == deepClone(excludesConfig)
  IN  [needsRefresh |-> needs,
       cache |-> [st.cache EXCEPT ![folder] =
                    [parsed |-> globParse(excludesConfigCopy.expr), present |-> TRUE,
                     original |-> excludesConfigCopy]]]

RECURSIVE forEachFolder(_, _)
forEachFolder(st, fs) ==
  IF fs = << >> THEN st ELSE forEachFolder(updateFolder(st, Head(fs)), Tail(fs))

\* updateConfiguration dropping the entries of roots that are no folders.
updateConfigurationPruning(cache, fs) ==
  forEachFolder([needsRefresh |-> FALSE,
                 cache |-> [r \in Roots |->
                             IF r \in {fs[i] : i \in 1 .. Len(fs)}
                               THEN cache[r] ELSE NoEntry]], fs)

\* updateConfiguration over the folders fs: the new cache and the flag.
updateConfiguration(cache, fs) ==
  forEachFolder([needsRefresh |-> FALSE, cache |-> cache], fs)

\* filter with the always-visible test ahead of the parent test.
filterEditableFirst(stat, parentVisibility) ==
  IF getEditableData(stat) # NoEditable \/ ItemTable[stat].isRoot
    THEN [visible |-> TRUE, matcher |-> 0]
  ELSE IF parentVisibility = "Hidden"
    THEN [visible |-> FALSE, matcher |-> 0]
  ELSE LET cached == hiddenExpressionPerRoot[ItemTable[stat].root]
       IN  IF cached.present
             THEN [visible |-> ~ParsedMatches(cached.parsed, ItemTable[stat].rel,
                                              ItemTable[stat].name, SiblingNames(stat)),
                   matcher |-> 1]
             ELSE [visible |-> TRUE, matcher |-> 0]

\* filter with no test for an edit session.
filterNoEditable(stat, parentVisibility) ==
  IF parentVisibility = "Hidden"
    THEN [visible |-> FALSE, matcher |-> 0]
  ELSE IF ItemTable[stat].isRoot
    THEN [visible |-> TRUE, matcher |-> 0]
  ELSE LET cached == hiddenExpressionPerRoot[ItemTable[stat].root]
       IN  IF cached.present
             THEN [visible |-> ~ParsedMatches(cached.parsed, ItemTable[stat].rel,
                                              ItemTable[stat].name, SiblingNames(stat)),
                   matcher |-> 1]
             ELSE [visible |-> TRUE, matcher |-> 0]

\* filter matching the item's name where the root-relative path belongs.
filterByName(stat, parentVisibility) ==
  IF parentVisibility = "Hidden"
    THEN [visible |-> FALSE, matcher |-> 0]
  ELSE IF getEditableData(stat) # NoEditable \/ ItemTable[stat].isRoot
    THEN [visible |-> TRUE, matcher |-> 0]
  ELSE LET cached == hiddenExpressionPerRoot[ItemTable[stat].root]
       IN  IF cached.present
             THEN [visible |-> ~ParsedMatches(cached.parsed, ItemTable[stat].name,
                                              ItemTable[stat].name, SiblingNames(stat)),
                   matcher |-> 1]
             ELSE [visible |-> TRUE, matcher |-> 0]

\* filter(stat, parentVisibility): whether the item is visible, and how
\* often the compiled matcher was invoked.
filter(stat, parentVisibility) ==
  IF parentVisibility = "Hidden"
    THEN [visible |-> FALSE, matcher |-> 0]
  ELSE IF getEditableData(stat) # NoEditable \/ ItemTable[stat].isRoot
    THEN [visible |-> TRUE, matcher |-> 0]
  ELSE LET cached == hiddenExpressionPerRoot[ItemTable[stat].root]
       IN  IF cached.present
             THEN [visible |-> ~ParsedMatches(cached.parsed, ItemTable[stat].rel,
                                              ItemTable[stat].name, SiblingNames(stat)),
                   matcher |-> 1]
             ELSE [visible |-> TRUE, matcher |-> 0]

NoFilter == [stat |-> 0, called |-> FALSE, parentVisibility |-> "Visible",
             visible |-> FALSE, matcher |-> 0, editing |-> FALSE]

\* The filter as constructed: an empty cache.
FilterInit ==
  /\ folders \in FolderLists
  /\ config \in [Roots -> ConfigValues]
  /\ hiddenExpressionPerRoot = [r \in Roots |-> NoEntry]
  /\ needsRefresh = "none"
  /\ configChange = "none"
  /\ filterResult = NoFilter

\* The filter while another component is exercised.
FilterIdle ==
  /\ FilterInit
  /\ folders = <<1>>
  /\ config = [r \in Roots |-> Undefined]

\* The cache once the object of a root's configuration has been replaced:
\* an entry that held the object holds what is now nobody's.
Detached(cache, root) ==
  [r \in Roots |-> IF cache[r].original.owner = root
                     THEN [cache[r] EXCEPT !.original.owner = 0]
                     ELSE cache[r]]

\* The cache once the object of a root's configuration has been written to:
\* an entry that holds the object sees the new content.
Written(cache, root, expr) ==
  [r \in Roots |-> IF cache[r].original.owner = root
                     THEN [cache[r] EXCEPT !.original.expr = expr]
                     ELSE cache[r]]

\* The configuration service gets a new files.exclude object for a root.
ChangeConfiguration(root, c) ==
  /\ config[root] # c
  /\ config' = [config EXCEPT ![root] = c]
  /\ hiddenExpressionPerRoot' = Detached(hiddenExpressionPerRoot, root)
  /\ configChange' = "replaced"
  /\ UNCHANGED <<editable, rendererVars, dataVars, sorterVars, folders, needsRefresh,
                 filterResult>>

\* The files.exclude object of a root is mutated in place.
MutateConfiguration(root, expr) ==
  /\ config[root].defined
  /\ config[root].expr # expr
  /\ config' = [config EXCEPT ![root].expr = expr]
  /\ hiddenExpressionPerRoot' = Written(hiddenExpressionPerRoot, root, expr)
  /\ configChange' = "mutated"
  /\ UNCHANGED <<editable, rendererVars, dataVars, sorterVars, folders, needsRefresh,
                 filterResult>>

\* The workspace folders change and the listener of the constructor runs
\* updateConfiguration, dropping its result.
ChangeWorkspaceFolders(fs) ==
  /\ folders # fs
  /\ folders' = fs
  /\ hiddenExpressionPerRoot' = updateConfiguration(hiddenExpressionPerRoot, fs).cache
  /\ UNCHANGED <<editable, rendererVars, dataVars, sorterVars, config, needsRefresh,
                 configChange, filterResult>>

\* The explorer view calls updateConfiguration, as it does when a
\* configuration change is notified to it.
UpdateConfiguration ==
  LET r == updateConfiguration(hiddenExpressionPerRoot, folders)
  IN  /\ hiddenExpressionPerRoot' = r.cache
      /\ needsRefresh' = IF r.needsRefresh THEN "true" ELSE "false"
      /\ configChange' = "none"
      /\ UNCHANGED <<editable, rendererVars, dataVars, sorterVars, folders, config,
                     filterResult>>

\* A filter call that caches an entry for a root it finds none for.
FilterFillsCache(stat, parentVisibility) ==
  LET r == filter(stat, parentVisibility)
      root == ItemTable[stat].root
  IN  /\ filterResult' =
           [stat |-> stat, called |-> TRUE, parentVisibility |-> parentVisibility,
            visible |-> r.visible,
            matcher |-> r.matcher, editing |-> getEditableData(stat) # NoEditable]
      /\ hiddenExpressionPerRoot' =
           IF hiddenExpressionPerRoot[root].present
             THEN hiddenExpressionPerRoot
             ELSE updateFolder([needsRefresh |-> FALSE,
                                cache |-> hiddenExpressionPerRoot], root).cache
      /\ UNCHANGED <<editable, rendererVars, dataVars, sorterVars, folders, config,
                     needsRefresh, configChange>>

\* The tree calls filter.
Filter(stat, parentVisibility) ==
  LET r == filter(stat, parentVisibility)
  IN  /\ filterResult' =
           [stat |-> stat, called |-> TRUE, parentVisibility |-> parentVisibility,
            visible |-> r.visible,
            matcher |-> r.matcher, editing |-> getEditableData(stat) # NoEditable]
      /\ UNCHANGED <<editable, rendererVars, dataVars, sorterVars, folders, config,
                     hiddenExpressionPerRoot, needsRefresh, configChange>>

FilterNext ==
  \/ \E stat \in FilterEditableItems, data \in {"rejectEmpty", NoEditable} :
       SetEditable(stat, data)
  \/ \E root \in Roots, c \in ConfigValues : ChangeConfiguration(root, c)
  \/ \E root \in Roots, expr \in {ExprWhen, ExprLib} :
       MutateConfiguration(root, expr)
  \/ \E fs \in FolderLists : ChangeWorkspaceFolders(fs)
  \/ UpdateConfiguration
  \/ \E stat \in Items, pv \in Visibilities : Filter(stat, pv)

(***************************************************************************)
(* FileSorter.                                                             *)
(***************************************************************************)

\* IExplorerService.sortOrder
SortOrders == {"default", "mixed", "filesFirst", "type", "modified"}

\* ExplorerItem.mtime: a number, or undefined.
NoMtime == [t |-> 0, defined |-> FALSE]
Mtimes == {NoMtime, [t |-> 1, defined |-> TRUE], [t |-> 2, defined |-> TRUE]}
Names == {"a.js", "a.ts", "b.js"}

\* The items handed to compare. index is the root's
\* getWorkspaceFolder(resource).index; the roots' names and times run
\* against their indices.
RootStats ==
  {[name |-> "b.js", isRoot |-> TRUE, isDirectory |-> TRUE, index |-> 0,
    mtime |-> [t |-> 1, defined |-> TRUE]],
   [name |-> "a.ts", isRoot |-> TRUE, isDirectory |-> TRUE, index |-> 1,
    mtime |-> NoMtime],
   [name |-> "a.js", isRoot |-> TRUE, isDirectory |-> TRUE, index |-> 2,
    mtime |-> [t |-> 2, defined |-> TRUE]]}
ChildStats ==
  {[name |-> n, isRoot |-> FALSE, isDirectory |-> d, index |-> 0, mtime |-> m] :
     d \in BOOLEAN, n \in Names, m \in Mtimes}
Stats == RootStats \cup ChildStats

\* The part of a file name before the extension, and the extension.
NamePart(name) == IF name = "b.js" THEN "b" ELSE "a"
ExtPart(name) == IF name = "a.ts" THEN "ts" ELSE "js"

\* The collation order of the strings in use.
Collate(s) == IF s \in {"a", "js"} THEN 1 ELSE 2
compareStrings(one, other) ==
  IF Collate(one) < Collate(other) THEN -1
  ELSE IF Collate(one) > Collate(other) THEN 1 ELSE 0

\* comparers.compareFileNames: by name, then by extension.
compareFileNames(one, other) ==
  IF compareStrings(NamePart(one), NamePart(other)) # 0
    THEN compareStrings(NamePart(one), NamePart(other))
    ELSE compareStrings(ExtPart(one), ExtPart(other))

\* comparers.compareFileExtensions: by extension, then by name.
compareFileExtensions(one, other) ==
  IF compareStrings(ExtPart(one), ExtPart(other)) # 0
    THEN compareStrings(ExtPart(one), ExtPart(other))
    ELSE compareStrings(NamePart(one), NamePart(other))

\* a < b on two mtimes: false when either is undefined.
MtimeLess(a, b) == a.defined /\ b.defined /\ a.t < b.t

\* What a switch statement leaves to the code after it.
Break == [value |-> 0, returned |-> FALSE]
Return(v) == [value |-> v, returned |-> TRUE]

\* The roots ordered by name.
compareRootsByName(statA, statB) ==
  IF statA.isRoot
    THEN IF statB.isRoot THEN Return(compareFileNames(statA.name, statB.name))
                         ELSE Return(-1)
  ELSE IF statB.isRoot THEN Return(1)
  ELSE Break

\* "Do not sort roots": lines 307-317.
compareRoots(statA, statB) ==
  IF statA.isRoot
    THEN IF statB.isRoot THEN Return(statA.index - statB.index)
                         ELSE Return(-1)
  ELSE IF statB.isRoot THEN Return(1)
  ELSE Break

\* The first switch with 'mixed' falling into the default case.
sortDirectoriesMixedAsDefault(statA, statB) ==
  IF sortOrder = "type"
    THEN IF statA.isDirectory /\ ~statB.isDirectory THEN Return(-1)
         ELSE IF statB.isDirectory /\ ~statA.isDirectory THEN Return(1)
         ELSE IF statA.isDirectory /\ statB.isDirectory
           THEN Return(compareFileNames(statA.name, statB.name))
         ELSE Break
  ELSE IF sortOrder = "filesFirst"
    THEN IF statA.isDirectory /\ ~statB.isDirectory THEN Return(1)
         ELSE IF statB.isDirectory /\ ~statA.isDirectory THEN Return(-1)
         ELSE Break
  ELSE IF statA.isDirectory /\ ~statB.isDirectory THEN Return(-1)
       ELSE IF statB.isDirectory /\ ~statA.isDirectory THEN Return(1)
       ELSE Break

\* The first switch with the directories of 'type' left to the second.
sortDirectoriesTypeFallsThrough(statA, statB) ==
  IF sortOrder = "type"
    THEN IF statA.isDirectory /\ ~statB.isDirectory THEN Return(-1)
         ELSE IF statB.isDirectory /\ ~statA.isDirectory THEN Return(1)
         ELSE Break
  ELSE IF sortOrder = "filesFirst"
    THEN IF statA.isDirectory /\ ~statB.isDirectory THEN Return(1)
         ELSE IF statB.isDirectory /\ ~statA.isDirectory THEN Return(-1)
         ELSE Break
  ELSE IF sortOrder = "mixed"
    THEN Break
  ELSE IF statA.isDirectory /\ ~statB.isDirectory THEN Return(-1)
       ELSE IF statB.isDirectory /\ ~statA.isDirectory THEN Return(1)
       ELSE Break

\* "Sort Directories": the switch of lines 322-362.
sortDirectories(statA, statB) ==
  IF sortOrder = "type"
    THEN IF statA.isDirectory /\ ~statB.isDirectory THEN Return(-1)
         ELSE IF statB.isDirectory /\ ~statA.isDirectory THEN Return(1)
         ELSE IF statA.isDirectory /\ statB.isDirectory
           THEN Return(compareFileNames(statA.name, statB.name))
         ELSE Break
  ELSE IF sortOrder = "filesFirst"
    THEN IF statA.isDirectory /\ ~statB.isDirectory THEN Return(1)
         ELSE IF statB.isDirectory /\ ~statA.isDirectory THEN Return(-1)
         ELSE Break
  ELSE IF sortOrder = "mixed"
    THEN Break
  ELSE IF statA.isDirectory /\ ~statB.isDirectory THEN Return(-1)
       ELSE IF statB.isDirectory /\ ~statA.isDirectory THEN Return(1)
       ELSE Break

\* The second switch with the older item first.
sortFilesOldestFirst(statA, statB) ==
  IF sortOrder = "type"
    THEN compareFileExtensions(statA.name, statB.name)
  ELSE IF sortOrder = "modified"
    THEN IF statA.mtime # statB.mtime
           THEN IF MtimeLess(statA.mtime, statB.mtime) THEN -1 ELSE 1
           ELSE compareFileNames(statA.name, statB.name)
  ELSE compareFileNames(statA.name, statB.name)

\* "Sort Files": the switch of lines 365-378.
sortFiles(statA, statB) ==
  IF sortOrder = "type"
    THEN compareFileExtensions(statA.name, statB.name)
  ELSE IF sortOrder = "modified"
    THEN IF statA.mtime # statB.mtime
           THEN IF MtimeLess(statA.mtime, statB.mtime) THEN 1 ELSE -1
           ELSE compareFileNames(statA.name, statB.name)
  ELSE compareFileNames(statA.name, statB.name)

\* FileSorter.compare
compare(statA, statB) ==
  IF compareRoots(statA, statB).returned
    THEN compareRoots(statA, statB).value
  ELSE IF sortDirectories(statA, statB).returned
    THEN sortDirectories(statA, statB).value
  ELSE sortFiles(statA, statB)

NoCompare == [sortOrder |-> "default", called |-> FALSE,
              result |-> 0,
              statA |-> CHOOSE s \in RootStats : s.index = 0, statB |-> CHOOSE s \in RootStats : s.index = 0]

SorterInit ==
  /\ sortOrder = "default"
  /\ compareResult = NoCompare

\* The user picks another explorer.sortOrder.
SetSortOrder(order) ==
  /\ sortOrder # order
  /\ sortOrder' = order
  /\ UNCHANGED <<editable, rendererVars, dataVars, filterVars, compareResult>>

\* The tree calls compare.
Compare(statA, statB) ==
  /\ compareResult' = [sortOrder |-> sortOrder, called |-> TRUE, result |-> compare(statA, statB),
                       statA |-> statA, statB |-> statB]
  /\ UNCHANGED <<editable, rendererVars, dataVars, filterVars, sortOrder>>

SorterNext ==
  \/ \E order \in SortOrders : SetSortOrder(order)
  \/ \E statA \in Stats, statB \in Stats : Compare(statA, statB)

(***************************************************************************)
(* The specifications, one per component.                                  *)
(***************************************************************************)
EditableInit == editable = [i \in AllItems |-> NoEditable]

InitRenderer ==
  EditableInit /\ RendererInit /\ DataInit /\ FilterIdle /\ SorterInit
InitDataSource ==
  EditableInit /\ RendererInit /\ DataInit /\ FilterIdle /\ SorterInit
InitFilter ==
  EditableInit /\ RendererInit /\ DataInit /\ FilterInit /\ SorterInit
InitInputBox ==
  EditableInit /\ RendererInit /\ DataInit /\ FilterIdle /\ SorterInit
InitSorter ==
  EditableInit /\ RendererInit /\ DataInit /\ FilterIdle /\ SorterInit

SpecRenderer == InitRenderer /\ [][RendererNext]_vars
SpecDataSource == InitDataSource /\ [][DataNext]_vars
SpecFilter == InitFilter /\ [][FilterNext]_vars
SpecSorter == InitSorter /\ [][SorterNext]_vars
SpecInputBox == InitInputBox /\ [][InputBoxNext]_vars

(***************************************************************************)
(* Properties of the renderer.                                             *)
(***************************************************************************)

\* The validator of session s accepts its current value.
Valid(s) == validationMessage(s.ed, s.value) \in {NoMessage, ""}

\* The session the last DOM event went to, before and after the event.
EventOn(k, kind) == lastEvent'.kind = kind /\ lastEvent'.sess = k

\* C1: every edit session invokes onFinish at most once, and exactly once
\* when a trigger has reached done(): Escape and blur always reach it, and a
\* second trigger, also one raised while the first is being processed, adds
\* no call and changes nothing of a completed session.
C1_OnFinishOnce ==
  /\ [](\A k \in DOMAIN sessions :
          /\ Len(sessions[k].finish) = IF sessions[k].didCall THEN 1 ELSE 0
          /\ (lastEvent.sess = k /\ lastEvent.kind \in {"Escape", "Blur"})
               => Len(sessions[k].finish) = 1)
  /\ [][\A k \in DOMAIN sessions :
          sessions[k].didCall => sessions'[k] = sessions[k]]_vars

\* A trigger raised a blur while it was being processed, and onFinish was
\* called once.
C1_Witness ==
  /\ lastEvent.kind \in {"Enter", "Escape", "Blur"}
  /\ lastEvent.reentry = "hide"
  /\ Len(sessions[lastEvent.sess].finish) = 1

\* C2: in an open session, Enter on an invalid value calls nothing and
\* leaves the session open, Enter on a valid value calls onFinish with
\* success = TRUE, and Escape calls onFinish with success = FALSE whatever
\* the value.
C2_EnterEscape ==
  [][\A k \in DOMAIN sessions :
       ~sessions[k].didCall =>
         /\ (EventOn(k, "Enter") /\ ~Valid(sessions[k]))
              => /\ sessions'[k].finish = << >>
                 /\ ~sessions'[k].didCall
                 /\ sessions'[k].disposed = {}
                 /\ sessions'[k].attached
         /\ (EventOn(k, "Enter") /\ Valid(sessions[k]))
              => /\ Len(sessions'[k].finish) = 1
                 /\ sessions'[k].finish[1].success = TRUE
         /\ EventOn(k, "Escape")
              => /\ Len(sessions'[k].finish) = 1
                 /\ sessions'[k].finish[1].success = FALSE]_vars

\* Enter was pressed on an invalid value and the session is still open.
C2_Witness ==
  /\ lastEvent.kind = "Enter"
  /\ ~sessions[lastEvent.sess].didCall
  /\ ~Valid(sessions[lastEvent.sess])

\* C3: when the input of an open session loses focus, onFinish is called
\* with success equal to the validity of the value at that moment.
C3_BlurCommitsValidity ==
  [][\A k \in DOMAIN sessions :
       (~sessions[k].didCall /\ EventOn(k, "Blur"))
         => /\ Len(sessions'[k].finish) = 1
            /\ sessions'[k].finish[1].success = Valid(sessions[k])]_vars

\* A blur on an invalid value completed a session with success = FALSE.
C3_Witness ==
  /\ lastEvent.kind = "Blur"
  /\ Len(sessions[lastEvent.sess].finish) = 1
  /\ ~sessions[lastEvent.sess].finish[1].success

\* The input boxes attached to the row container.
AttachedBoxes == {k \in DOMAIN sessions : sessions[k].attached}

\* C4: the row template is always either in display mode (label shown, no
\* input box attached) or in edit mode (label hidden, exactly one input box
\* attached).
C4_DisplayXorEdit ==
  \/ tplLabelDisplay # "none" /\ AttachedBoxes = {}
  \/ tplLabelDisplay = "none" /\ Cardinality(AttachedBoxes) = 1

\* C5: an input box that is not released belongs to the edit session the
\* template is rendering now: recycling or disposing the template releases
\* the input box of a session that is still open.
C5_InputBoxReleased ==
  \A k \in DOMAIN sessions :
    sessions[k].disposed # toDispose
      => /\ k = Len(sessions)
         /\ tplLabelDisplay = "none"
         /\ ~tplLabelDisposed

(***************************************************************************)
(* Properties of the data source.                                          *)
(***************************************************************************)

\* C6: a getChildren call on a directory item whose fetch fails resolves
\* with the empty list and never rejects; it reports the error once when
\* the item is not a root and not at all when it is a root.
C6_FailedFetchResolvesEmpty ==
  \A c \in DOMAIN calls :
    /\ calls[c].promise # "rejected"
    /\ calls[c].fetch = "rejected"
         => /\ calls[c].promise = "fulfilled"
            /\ calls[c].value = << >>
            /\ Len(calls[c].notified) =
                 IF ItemTable[calls[c].element.item].isRoot THEN 0 ELSE 1

\* The fetch failed for a root and for a directory that is no root.
C6_Witness ==
  \E c, d \in DOMAIN calls :
    /\ calls[c].fetch = "rejected" /\ calls[d].fetch = "rejected"
    /\ ItemTable[calls[c].element.item].isRoot
    /\ ~ItemTable[calls[d].element.item].isRoot

\* C7: getChildren on a list of roots resolves with that list and calls no
\* service; getChildren on an item whose fetch succeeds resolves with the
\* list fetched and reports nothing.
C7_RootsAndFetchedList ==
  \A c \in DOMAIN calls :
    /\ calls[c].element.isArray
         => /\ calls[c].promise = "fulfilled"
            /\ calls[c].value = calls[c].element.items
            /\ calls[c].fileCalls = 0
            /\ calls[c].notified = << >>
            /\ calls[c].progress = << >>
    /\ calls[c].fetch = "fulfilled"
         => /\ calls[c].promise = "fulfilled"
            /\ calls[c].value = calls[c].fetched
            /\ calls[c].notified = << >>

\* One call on a list of two roots, one on an item whose fetch found children.
C7_Witness ==
  \E c, d \in DOMAIN calls :
    /\ calls[c].element.isArray /\ Len(calls[c].element.items) = 2
    /\ calls[d].fetch = "fulfilled" /\ calls[d].fetched # << >>

\* C8: hasChildren is true for every list of roots, the empty one too, and
\* for an item it is the item's isDirectory.
C8_HasChildren ==
  hasChildrenResult.called =>
    hasChildrenResult.result =
      IF hasChildrenResult.element.isArray THEN TRUE
      ELSE ItemTable[hasChildrenResult.element.item].isDirectory

\* hasChildren was asked about the empty list of roots.
C8_Witness ==
  /\ hasChildrenResult.called
  /\ hasChildrenResult.element.isArray
  /\ hasChildrenResult.element.items = << >>
  /\ hasChildrenResult.result

(***************************************************************************)
(* Properties of the filter.                                               *)
(***************************************************************************)

\* The cached matcher of the item's root matches the item.
CachedMatch(stat) ==
  LET cached == hiddenExpressionPerRoot[ItemTable[stat].root]
  IN  /\ cached.present
      /\ ParsedMatches(cached.parsed, ItemTable[stat].rel, ItemTable[stat].name,
                       SiblingNames(stat))

\* C9: with parentVisibility Hidden, filter answers hidden for every item
\* and does not invoke the compiled matcher.
C9_HiddenParentHides ==
  (filterResult.called /\ filterResult.parentVisibility = "Hidden")
    => ~filterResult.visible /\ filterResult.matcher = 0

\* filter answered hidden under a hidden parent for an item in an edit session.
C9_Witness ==
  /\ filterResult.called
  /\ filterResult.parentVisibility = "Hidden"
  /\ filterResult.editing
  /\ ~filterResult.visible

\* C10 as stated: a root, or an item with an editable-data record, is
\* visible whatever the cache holds and whatever parentVisibility is.
C10_AlwaysVisible ==
  (filterResult.called
     /\ (ItemTable[filterResult.stat].isRoot \/ filterResult.editing))
    => filterResult.visible

\* C10, amended: a root, or an item with an editable-data record, is visible
\* whatever the cache holds, when parentVisibility is not Hidden.
C10_VisibleUnlessParentHidden ==
  (filterResult.called
     /\ (ItemTable[filterResult.stat].isRoot \/ filterResult.editing)
     /\ filterResult.parentVisibility # "Hidden")
    => filterResult.visible

\* An item in an edit session that the cached matcher of its root matches
\* was found visible.
C10_Witness ==
  /\ filterResult.called
  /\ filterResult.editing
  /\ filterResult.parentVisibility # "Hidden"
  /\ CachedMatch(filterResult.stat)
  /\ filterResult.visible

\* C11: for an item that is no root, has no editable-data record and whose
\* parent is not hidden, filter answers hidden exactly when the cache holds
\* an entry for the item's root whose matcher matches the item's
\* root-relative path; with no entry for the root the item is visible.
C11_HiddenIffCachedMatch ==
  [][(filterResult' # filterResult
        /\ filterResult'.called
        /\ ~ItemTable[filterResult'.stat].isRoot
        /\ ~filterResult'.editing
        /\ filterResult'.parentVisibility # "Hidden")
       => /\ filterResult'.visible = ~CachedMatch(filterResult'.stat)
          /\ ~hiddenExpressionPerRoot[ItemTable[filterResult'.stat].root].present
               => filterResult'.visible]_vars

\* The unnamed item below lib, out of its edit session, was found hidden by
\* the pattern that matches its path.
C11_Witness ==
  /\ filterResult.called
  /\ filterResult.stat = 7
  /\ ~filterResult.editing
  /\ filterResult.parentVisibility # "Hidden"
  /\ CachedMatch(7)
  /\ ~filterResult.visible

\* The current workspace folders, and whether the cache entry of one holds
\* the expression configured for it now.
CurrentFolders == {folders[i] : i \in 1 .. Len(folders)}
ConfiguredExpr(f) == IF config[f].defined THEN config[f].expr ELSE {}
EntryCurrent(f) ==
  /\ hiddenExpressionPerRoot[f].present
  /\ hiddenExpressionPerRoot[f].original.expr = ConfiguredExpr(f)

\* A step of a direct updateConfiguration call that changes anything.
UpdateStep ==
  /\ folders' = folders
  /\ config' = config
  /\ \/ needsRefresh' # needsRefresh
     \/ hiddenExpressionPerRoot' # hiddenExpressionPerRoot
     \/ configChange' # configChange

\* C12: once the view has answered the most recent configuration change
\* with updateConfiguration, the entry the cache holds for a current
\* workspace folder has the raw expression configured for that folder now
\* and the matcher compiled from it, whatever folder changes happened in
\* between; and once updateConfiguration has been called at all, every
\* current folder has an entry.
C12_CacheFollowsConfiguration ==
  configChange = "none" =>
    \A f \in CurrentFolders :
      /\ hiddenExpressionPerRoot[f].present =>
           /\ EntryCurrent(f)
           /\ hiddenExpressionPerRoot[f].parsed = [compiled |-> ConfiguredExpr(f)]
      /\ needsRefresh # "none" => hiddenExpressionPerRoot[f].present

\* Both folders are current with different expressions configured, cached
\* and compiled, after a call that found the cache stale.
C12_Witness ==
  /\ configChange = "none"
  /\ needsRefresh = "true"
  /\ folders = <<2, 1>>
  /\ ConfiguredExpr(1) = ExprLib
  /\ ConfiguredExpr(2) = ExprWhen
  /\ EntryCurrent(1)
  /\ EntryCurrent(2)

\* C13: updateConfiguration returns true exactly when, in the cache as it
\* was before the call, some current folder has no entry or an entry whose
\* raw expression differs from the folder's configured one; after the call
\* every current folder has an entry with the configured expression.
C13_NeedsRefreshIffStale ==
  [][UpdateStep =>
       /\ needsRefresh' = IF \E f \in CurrentFolders : ~EntryCurrent(f)
                            THEN "true" ELSE "false"
       /\ \A f \in CurrentFolders :
            /\ hiddenExpressionPerRoot'[f].present
            /\ hiddenExpressionPerRoot'[f].original.expr = ConfiguredExpr(f)]_vars

\* A call returned false with two folders current and cached, the second
\* with a configured expression.
C13_Witness ==
  /\ needsRefresh = "false"
  /\ configChange = "none"
  /\ Len(folders) = 2
  /\ config[folders[2]].defined
  /\ \A f \in CurrentFolders : EntryCurrent(f)

\* C20: mutating the files.exclude object of a root in place leaves the raw
\* expression of every cache entry as it was, and when the entry of a
\* current folder held the configured expression before the mutation, the
\* updateConfiguration call that follows returns true.
C20_CacheKeepsOwnCopy ==
  [][(configChange' = "mutated" /\ config' # config) =>
       /\ \A r \in Roots :
            hiddenExpressionPerRoot'[r].original.expr
              = hiddenExpressionPerRoot[r].original.expr
       /\ \A f \in CurrentFolders :
            (EntryCurrent(f) /\ config'[f] # config[f]) =>
              updateConfiguration(hiddenExpressionPerRoot, folders)'.needsRefresh]_vars

\* A current folder's object was mutated in place and its entry still has
\* the expression from before.
C20_Witness ==
  /\ configChange = "mutated"
  /\ needsRefresh # "none"
  /\ \E f \in CurrentFolders :
       /\ hiddenExpressionPerRoot[f].present
       /\ hiddenExpressionPerRoot[f].original.expr = ExprWhen
       /\ ConfiguredExpr(f) = ExprLib

(***************************************************************************)
(* Properties of the sorter.                                               *)
(***************************************************************************)
Sign(n) == IF n < 0 THEN -1 ELSE IF n > 0 THEN 1 ELSE 0

\* The last compare call had two items below the roots, in the given mode.
ComparedChildren(order) ==
  /\ compareResult.called
  /\ compareResult.sortOrder = order
  /\ ~compareResult.statA.isRoot
  /\ ~compareResult.statB.isRoot

\* C14: in the sort mode in force compare is a strict weak ordering over all
\* items, those without a modification time included: an item compares
\* equal to itself, swapping the arguments flips the sign, and "before" is
\* transitive.
C14_StrictWeakOrdering ==
  \A a \in Stats, b \in Stats :
    /\ compare(a, a) = 0
    /\ Sign(compare(a, b)) = -Sign(compare(b, a))
    /\ compare(a, b) < 0 =>
         \A c \in Stats : compare(b, c) < 0 => compare(a, c) < 0

\* C15: in every sort mode a root compares before an item that is no root,
\* in either argument position, and two roots compare by workspace-folder
\* index, the smaller first, whatever their names and times.
C15_RootsFirstByIndex ==
  compareResult.called =>
    LET a == compareResult.statA
        b == compareResult.statB
    IN  /\ (a.isRoot /\ ~b.isRoot) => compareResult.result < 0
        /\ (~a.isRoot /\ b.isRoot) => compareResult.result > 0
        /\ (a.isRoot /\ b.isRoot) =>
             Sign(compareResult.result) = Sign(a.index - b.index)

\* In mode 'type' the root of index 0 came before the root of index 2, whose
\* name collates first.
C15_Witness ==
  /\ compareResult.called
  /\ compareResult.sortOrder = "type"
  /\ compareResult.statA.isRoot /\ compareResult.statA.index = 0
  /\ compareResult.statB.isRoot /\ compareResult.statB.index = 2
  /\ compareFileNames(compareResult.statA.name, compareResult.statB.name) > 0
  /\ compareResult.result < 0

\* C16: in mode 'modified', of two items of the same kind below the roots
\* the one with the larger modification time comes first, two with equal
\* times compare by name, and a directory comes before a file whatever the
\* times.
C16_ModifiedNewestFirst ==
  ComparedChildren("modified") =>
    LET a == compareResult.statA
        b == compareResult.statB
    IN  /\ (a.isDirectory /\ ~b.isDirectory) => compareResult.result < 0
        /\ (~a.isDirectory /\ b.isDirectory) => compareResult.result > 0
        /\ (a.isDirectory = b.isDirectory /\ a.mtime.defined /\ b.mtime.defined
              /\ a.mtime.t # b.mtime.t) =>
             (compareResult.result < 0 <=> a.mtime.t > b.mtime.t)
        /\ (a.isDirectory = b.isDirectory /\ a.mtime = b.mtime) =>
             compareResult.result = compareFileNames(a.name, b.name)

\* The newer of two files came first although its name collates last.
C16_Witness ==
  /\ ComparedChildren("modified")
  /\ ~compareResult.statA.isDirectory /\ ~compareResult.statB.isDirectory
  /\ compareResult.statA.mtime = [t |-> 2, defined |-> TRUE]
  /\ compareResult.statB.mtime = [t |-> 1, defined |-> TRUE]
  /\ compareResult.statA.name = "b.js" /\ compareResult.statB.name = "a.js"
  /\ compareResult.result < 0

\* C17: in mode 'type', below the roots, a directory comes before a file,
\* two directories compare by the name comparator and two files by the
\* extension comparator.
C17_TypeByExtension ==
  ComparedChildren("type") =>
    LET a == compareResult.statA
        b == compareResult.statB
    IN  /\ (a.isDirectory /\ ~b.isDirectory) => compareResult.result < 0
        /\ (~a.isDirectory /\ b.isDirectory) => compareResult.result > 0
        /\ (a.isDirectory /\ b.isDirectory) =>
             compareResult.result = compareFileNames(a.name, b.name)
        /\ (~a.isDirectory /\ ~b.isDirectory) =>
             compareResult.result = compareFileExtensions(a.name, b.name)

\* Two files came out in extension order, against the order of their names.
C17_Witness ==
  /\ ComparedChildren("type")
  /\ ~compareResult.statA.isDirectory /\ ~compareResult.statB.isDirectory
  /\ compareResult.statA.name = "a.ts" /\ compareResult.statB.name = "b.js"
  /\ compareFileNames("a.ts", "b.js") < 0
  /\ compareResult.result > 0

\* C18: below the roots, mode 'filesFirst' puts a file before a directory
\* and compares two of a kind by name; mode 'mixed' returns what the name
\* comparator returns, directory or not; mode 'default' puts a directory
\* before a file and compares two of a kind by name.
C18_FilesFirstMixedDefault ==
  LET a == compareResult.statA
      b == compareResult.statB
      byName == compareFileNames(a.name, b.name)
  IN  /\ ComparedChildren("filesFirst") =>
           /\ (a.isDirectory /\ ~b.isDirectory) => compareResult.result > 0
           /\ (~a.isDirectory /\ b.isDirectory) => compareResult.result < 0
           /\ a.isDirectory = b.isDirectory => compareResult.result = byName
      /\ ComparedChildren("mixed") => compareResult.result = byName
      /\ ComparedChildren("default") =>
           /\ (a.isDirectory /\ ~b.isDirectory) => compareResult.result < 0
           /\ (~a.isDirectory /\ b.isDirectory) => compareResult.result > 0
           /\ a.isDirectory = b.isDirectory => compareResult.result = byName

\* In mode 'mixed' a directory came after the file whose name collates
\* first.
C18_Witness ==
  /\ ComparedChildren("mixed")
  /\ compareResult.statA.isDirectory /\ ~compareResult.statB.isDirectory
  /\ compareResult.statA.name = "b.js" /\ compareResult.statB.name = "a.js"
  /\ compareResult.result > 0

(***************************************************************************)
(* The completion callback of the renderer.                                *)
(***************************************************************************)
\* C19: the text onFinish gets is the value the input held when the first
\* trigger fired; when onFinish is called the input box, the key and blur
\* listeners and the rest of the session's disposables are disposed and the
\* edit label is out of the row container; and once onFinish has been
\* called no event reaches the session and nothing of it changes.
C19_TeardownBeforeCallback ==
  /\ [](\A k \in DOMAIN sessions :
          \A i \in DOMAIN sessions[k].finish :
            /\ sessions[k].finish[i].disposed = toDispose
            /\ ~sessions[k].finish[i].attached)
  /\ [][\A k \in DOMAIN sessions :
          /\ (sessions[k].finish = << >> /\ sessions'[k].finish # << >>) =>
               sessions'[k].finish[1].value = sessions[k].value
          /\ sessions[k].finish # << >> =>
               /\ sessions'[k] = sessions[k]
               /\ lastEvent'.kind = "none" \/ lastEvent'.sess # k]_vars

\* A session finished on the text typed into it, with a blur raised while
\* the edit label was taken out of the container.
C19_Witness ==
  \E k \in DOMAIN sessions :
    /\ Len(sessions[k].finish) = 1
    /\ sessions[k].finish[1].value = ""
    /\ sessions[k].finish[1].value # ItemTable[sessions[k].item].name
    /\ sessions[k].finish[1].disposed = toDispose
    /\ ~sessions[k].finish[1].attached
    /\ lastEvent.sess = k
    /\ lastEvent.reentry = "remove"

(***************************************************************************)
(* The progress indicator of the data source.                              *)
(***************************************************************************)
\* The state of the promise a showWhile registration watches.
ShownPromise(c, p) == IF p.promise = "recovered" THEN c.promise ELSE c.fetch

\* C21: a getChildren call on a directory item registers with the progress
\* service exactly once, with the delay of a restored workbench when
\* isRestored() holds at the call and the startup delay otherwise, and what
\* it registers is the promise with the rejection handler, which is never
\* rejected.
C21_ProgressOnceRecovered ==
  /\ [](\A c \in DOMAIN calls :
          ~calls[c].element.isArray =>
            /\ Len(calls[c].progress) = 1
            /\ calls[c].progress[1].promise = "recovered"
            /\ ShownPromise(calls[c], calls[c].progress[1]) # "rejected")
  /\ [][Len(calls') = Len(calls) + 1 =>
          LET c == calls'[Len(calls')]
          IN  ~c.element.isArray =>
                c.progress[1].delay = IF restored THEN DelayRestored
                                      ELSE DelayStartup]_vars

\* A call during startup and a call after the restore, the second with a
\* failed fetch behind a fulfilled promise.
C21_Witness ==
  /\ Len(calls) = 2
  /\ ~calls[1].element.isArray /\ ~calls[2].element.isArray
  /\ calls[1].progress[1].delay = DelayStartup
  /\ calls[2].progress[1].delay = DelayRestored
  /\ calls[2].fetch = "rejected"
  /\ calls[2].promise = "fulfilled"

(***************************************************************************)
(* The input box as an edit session opens.                                 *)
(***************************************************************************)
\* The 0-based positions of the dots of a name after its first character.
DotsAfterFirst(stat) ==
  {i - 1 : i \in {i \in 2 .. Len(NameChars(ItemTable[stat].name)) :
                    NameChars(ItemTable[stat].name)[i] = "."}}

\* C22: a session opens with the item's name as the input's value, the
\* empty string for an unnamed item, and with a selection from 0 to the
\* last '.' of the name when the item is no directory and its name has a
\* '.' after the first character, and from 0 to the length of the name
\* otherwise.
C22_InitialValueAndSelection ==
  [][Len(sessions') = Len(sessions) + 1 =>
       LET s == sessions'[Len(sessions')]
           dots == DotsAfterFirst(s.item)
       IN  /\ s.value = ItemTable[s.item].name
           /\ s.selection.start = 0
           /\ IF ~ItemTable[s.item].isDirectory /\ dots # {}
                THEN /\ s.selection.end \in dots
                     /\ \A d \in dots : d <= s.selection.end
                ELSE s.selection.end = Len(NameChars(ItemTable[s.item].name))]_vars

\* Sessions are open for a file selected up to its extension and for a
\* directory with a dot in its name, selected whole.
C22_Witness ==
  /\ Len(sessions) = 2
  /\ sessions[1].item = 4
  /\ sessions[1].selection = [start |-> 0, end |-> 1]
  /\ sessions[2].item = 10
  /\ sessions[2].selection = [start |-> 0, end |-> 4]

(***************************************************************************)
(* Who writes the cache of the filter.                                     *)
(***************************************************************************)
\* C23: a filter call, whatever its arguments and result, leaves every
\* cache entry as it was, and a step that changes the cache at all is a run
\* of updateConfiguration over the workspace folders.
C23_FilterLeavesCache ==
  [][/\ filterResult' # filterResult =>
          hiddenExpressionPerRoot' = hiddenExpressionPerRoot
     /\ hiddenExpressionPerRoot' # hiddenExpressionPerRoot =>
          /\ config' = config
          /\ filterResult' = filterResult
          /\ hiddenExpressionPerRoot' =
               updateConfiguration(hiddenExpressionPerRoot, folders').cache]_vars

\* filter consulted the matcher of the first root and hid a.js while the
\* second root, no workspace folder so far, has no entry.
C23_Witness ==
  /\ filterResult.called
  /\ filterResult.stat = 4
  /\ filterResult.matcher = 1
  /\ ~filterResult.visible
  /\ folders = <<1>>
  /\ hiddenExpressionPerRoot[1].present
  /\ ~hiddenExpressionPerRoot[2].present

\* C24: no step removes a cache entry, the entry of a root that is no
\* workspace folder after the step is left exactly as it was, and a filter
\* call for an item of such a root still answers by that entry.
C24_EntriesPersist ==
  [][/\ \A r \in Roots :
          hiddenExpressionPerRoot[r].present =>
            /\ hiddenExpressionPerRoot'[r].present
            /\ r \notin {folders'[i] : i \in 1 .. Len(folders')} =>
                 hiddenExpressionPerRoot'[r] = hiddenExpressionPerRoot[r]
     /\ (filterResult' # filterResult
           /\ ItemTable[filterResult'.stat].root \notin CurrentFolders
           /\ ~ItemTable[filterResult'.stat].isRoot
           /\ ~filterResult'.editing
           /\ filterResult'.parentVisibility # "Hidden"
           /\ hiddenExpressionPerRoot[ItemTable[filterResult'.stat].root].present)
          => /\ filterResult'.matcher = 1
             /\ filterResult'.visible = ~CachedMatch(filterResult'.stat)]_vars

\* The second root is no workspace folder any more, its configuration has
\* changed and updateConfiguration has run since; filter still consulted the
\* entry cached for it.
C24_Witness ==
  /\ folders = <<1>>
  /\ needsRefresh = "false"
  /\ configChange = "none"
  /\ hiddenExpressionPerRoot[2].present
  /\ hiddenExpressionPerRoot[2].original.expr = ExprWhen
  /\ ConfiguredExpr(2) = ExprLib
  /\ filterResult.called
  /\ filterResult.stat = 6
  /\ filterResult.parentVisibility = "Visible"
  /\ filterResult.matcher = 1

\* What an updateConfiguration call made now would return and cache.
CallNow == updateConfiguration(hiddenExpressionPerRoot, folders)

\* C25: after a run of updateConfiguration, direct or by the listener of
\* a workspace-folder change, a call made with no configuration or folder
\* change in between returns false and leaves the raw expression of every
\* entry as it is.
C25_SecondCallReturnsFalse ==
  [][(folders' # folders \/ UpdateStep) =>
       /\ ~CallNow'.needsRefresh
       /\ \A r \in Roots :
            CallNow'.cache[r].original.expr
              = hiddenExpressionPerRoot'[r].original.expr]_vars

\* A configuration change is unanswered, no direct call has been made, and
\* the listener's run has brought both folders up to date.
C25_Witness ==
  /\ configChange = "replaced"
  /\ needsRefresh = "none"
  /\ folders = <<2, 1>>
  /\ ConfiguredExpr(2) = ExprLib
  /\ \A f \in CurrentFolders : EntryCurrent(f)
  /\ ~CallNow.needsRefresh

====
